---- MODULE Spec2Model ----
(***************************************************************************)
(* MonkeyOCR FastAPI service (api/main.py, tools/aws_s3.py): the request   *)
(* handlers perform_ocr_task and parse_document, the ThreadPoolExecutor    *)
(* they submit model jobs to, the lifespan shutdown, the archive naming of *)
(* parse_document, the download behind /ocr/text/s3_url and the log        *)
(* upload of /logs/upload.                                                 *)
(*                                                                         *)
(* Strings whose content the code inspects (file names, paths) are         *)
(* sequences of one-character strings, so that suffix, endswith, split and *)
(* the substring test are computed as Python computes them.                *)
(***************************************************************************)
EXTENDS Naturals, Sequences, FiniteSets

\* ------------------------------------------------------------ bounds
\* Requests that arrive in the load scenario.
MaxReq == 3
\* Largest value of int(time.time()) the model observes.
MaxTime == 1
\* Files in a result directory handed to the archive builder.
MaxFiles == 3
\* Log files written to the log directory.
MaxLogs == 3
\* Requests to /logs/upload.
MaxLogRequests == 2

\* ------------------------------------------------------------ strings
UpperChar(c) ==
    CASE c = "p" -> "P" [] c = "d" -> "D" [] c = "f" -> "F" [] c = "j" -> "J"
      [] c = "g" -> "G" [] c = "e" -> "E" [] c = "n" -> "N" [] c = "t" -> "T"
      [] c = "x" -> "X" [] c = "m" -> "M" [] c = "a" -> "A" [] c = "b" -> "B"
      [] OTHER -> c

\* str.lower() on one character of the model's alphabet
LowerChar(c) ==
    CASE c = "P" -> "p" [] c = "D" -> "d" [] c = "F" -> "f" [] c = "J" -> "j"
      [] c = "G" -> "g" [] c = "E" -> "e" [] c = "N" -> "n" [] c = "T" -> "t"
      [] c = "X" -> "x" [] c = "M" -> "m" [] c = "A" -> "a" [] c = "B" -> "b"
      [] OTHER -> c

\* a comparison that forgets .lower()
LowerForgotten(s) == s

\* str.lower()
Lower(s) == [i \in 1..Len(s) |-> LowerChar(s[i])]

\* str.endswith(suf)
EndsWith(s, suf) ==
    /\ Len(s) >= Len(suf)
    /\ SubSeq(s, Len(s) - Len(suf) + 1, Len(s)) = suf

\* sub in s
Contains(s, sub) ==
    \E i \in 1..(Len(s) + 1) :
        /\ i + Len(sub) - 1 <= Len(s)
        /\ SubSeq(s, i, i + Len(sub) - 1) = sub

\* str.rfind(c) + 1: the last position of c in s, 0 when c is not in s
RFind(s, c) ==
    LET hits == {i \in 1..Len(s) : s[i] = c}
    IN  IF hits = {} THEN 0 ELSE CHOOSE i \in hits : \A j \in hits : j <= i

\* s without its trailing "/" characters
RECURSIVE StripSlashes(_)
StripSlashes(s) ==
    IF Len(s) > 0 /\ s[Len(s)] = "/" THEN StripSlashes(SubSeq(s, 1, Len(s) - 1))
    ELSE s

\* PurePath(s).name and os.path.basename of a path without a trailing "/"
PathName(s) ==
    LET t == StripSlashes(s)
    IN  SubSeq(t, RFind(t, "/") + 1, Len(t))

\* PurePath(s).suffix: from the last dot of the name, unless that dot is the
\* name's first or last character
PathSuffix(s) ==
    LET name == PathName(s)
        i == RFind(name, ".")
    IN  IF 1 < i /\ i < Len(name) THEN SubSeq(name, i, Len(name)) ELSE <<>>

\* '.'.join(s.split('.')[:-1]): everything before the last dot, '' without one
OriginalName(s) ==
    LET i == RFind(s, ".")
    IN  IF i = 0 THEN <<>> ELSE SubSeq(s, 1, i - 1)


\* ------------------------------------------------------------ constants
\* a pool one thread larger
max_workers_plus_one == 2 + 1

\* executor = ThreadPoolExecutor(max_workers=2)
max_workers == 2
Workers == 1..max_workers

\* monkey_ocr_model = MonkeyOCR(...) at import: the handlers only ever see it set
monkey_ocr_model == TRUE

\* temp_dir, the directory the /static mount serves
temp_dir == "/workspace/MonkeyOCR/app/temp"
\* the directory parse_document writes the archive to
zip_dir == "/app/tmp"
\* the directory download_file reads
download_dir == "/app/tmp"

allowed_extensions ==
    { <<".", "p", "d", "f">>, <<".", "j", "p", "g">>,
      <<".", "j", "p", "e", "g">>, <<".", "p", "n", "g">> }

SingleTasks == {"text", "formula", "table"}
TaskTypes == SingleTasks \cup {"parse"}

TaskChars(tt) ==
    CASE tt = "text" -> <<"t", "e", "x", "t">>
      [] tt = "formula" -> <<"f", "o", "r", "m", "u", "l", "a">>
      [] tt = "table" -> <<"t", "a", "b", "l", "e">>
      [] OTHER -> <<"p", "a", "r", "s", "e">>

\* f'_{task_type}_result.md'
ResultSuffix(tt) ==
    <<"_">> \o TaskChars(tt) \o <<"_", "r", "e", "s", "u", "l", "t", ".", "m", "d">>

\* ------------------------------------------------------------ inputs
\* every spelling of s in upper and lower case
Casings(s) ==
    { [i \in 1..Len(s) |-> IF i \in U THEN UpperChar(s[i]) ELSE s[i]] :
        U \in SUBSET (1..Len(s)) }

BothCases(s) == { s, [i \in 1..Len(s) |-> UpperChar(s[i])] }

NameDirs == { <<>>, <<"d", ".", "x", "/">> }
NameStems == { <<>>, <<"a">>, <<"a", ".", "b">>, <<".">> }
NameExts ==
    {<<>>}
    \cup Casings(<<"p", "d", "f">>)
    \cup Casings(<<"j", "p", "e", "g">>)
    \cup BothCases(<<"j", "p", "g">>)
    \cup BothCases(<<"p", "n", "g">>)
    \cup BothCases(<<"t", "x", "t">>)
    \cup { <<"p", "d">>, <<"p", "d", "f", "x">>, <<"m", "d">> }
NameTails == { <<>>, <<".">> }

\* the file names a client may declare in the single-request scenario
AllNames ==
    { d \o s \o (IF e = <<>> THEN <<>> ELSE <<".">> \o e) \o t :
        d \in NameDirs, s \in NameStems, e \in NameExts, t \in NameTails }

\* the declared names of the archive scenario: their seeds are doc, a.b and ''
doc_pdf == <<"d", "o", "c", ".", "p", "d", "f">>
a_b_PDF == <<"a", ".", "b", ".", "P", "D", "F">>
dot_pdf == <<".", "p", "d", "f">>

a_pdf == <<"a", ".", "p", "d", "f">>
c_txt == <<"c", ".", "t", "x", "t">>

\* the uploads (declared file name, endpoint) clients send in each scenario;
\* in the queue scenario Workload has them alternate
Uploads(sc) ==
    IF sc = "load"
    THEN { [filename |-> a_pdf, task_type |-> "text"],
           [filename |-> c_txt, task_type |-> "formula"],
           [filename |-> a_pdf, task_type |-> "parse"] }
    ELSE IF sc = "queue"
    THEN { [filename |-> a_pdf, task_type |-> "text"],
           [filename |-> a_pdf, task_type |-> "parse"] }
    ELSE IF sc = "archive"
    THEN [filename : {doc_pdf, a_b_PDF, dot_pdf}, task_type : {"parse"}]
    ELSE [filename : AllNames, task_type : TaskTypes]

\* relative paths of files the external model may leave under a parse result
\* directory
report_md == <<"r", "e", "p", "o", "r", "t", ".", "m", "d">>
report_content_list_json ==
    <<"r", "e", "p", "o", "r", "t", "_", "c", "o", "n", "t", "e", "n", "t", "_",
      "l", "i", "s", "t", ".", "j", "s", "o", "n">>
report_middle_json ==
    <<"r", "e", "p", "o", "r", "t", "_", "m", "i", "d", "d", "l", "e", ".", "j", "s", "o", "n">>
report_model_pdf ==
    <<"r", "e", "p", "o", "r", "t", "_", "m", "o", "d", "e", "l", ".", "p", "d", "f">>
report_layout_pdf ==
    <<"r", "e", "p", "o", "r", "t", "_", "l", "a", "y", "o", "u", "t", ".", "p", "d", "f">>
report_spans_pdf ==
    <<"r", "e", "p", "o", "r", "t", "_", "s", "p", "a", "n", "s", ".", "p", "d", "f">>
fig1_png == <<"f", "i", "g", "1", ".", "p", "n", "g">>
images_fig1_png == <<"i", "m", "a", "g", "e", "s", "/">> \o fig1_png
images_notes_md == <<"i", "m", "a", "g", "e", "s", "/", "n", ".", "m", "d">>
myimages_fig1_png == <<"m", "y", "i", "m", "a", "g", "e", "s", "/">> \o fig1_png
sub_fig1_png == <<"s", "u", "b", "/">> \o fig1_png

ResultPaths ==
    { report_md, report_content_list_json, report_middle_json, report_model_pdf,
      report_layout_pdf, report_spans_pdf, fig1_png, images_fig1_png,
      images_notes_md, myimages_fig1_png, sub_fig1_png }

\* names the external model may leave in a single-task result directory
ResultFile(stem, tt, ext) ==
    stem \o <<"_">> \o TaskChars(tt) \o <<"_", "r", "e", "s", "u", "l", "t">> \o ext

OtherTask(tt) == IF tt = "text" THEN "table" ELSE "text"

\* the directory listings a finished job may leave, per scenario
Listings(sc, tt) ==
    LET A == ResultFile(<<"a">>, tt, <<".", "m", "d">>)
        B == ResultFile(<<"b">>, tt, <<".", "m", "d">>)
        J == ResultFile(<<"a">>, tt, <<".", "j", "s", "o", "n">>)
        O == ResultFile(<<"a">>, OtherTask(tt), <<".", "m", "d">>)
        M == <<"a", ".", "m", "d">>
    IN  IF sc = "archive"
        THEN { l \in SUBSET ResultPaths : Cardinality(l) <= MaxFiles }
        ELSE IF sc = "queue"
        THEN IF tt = "parse" THEN { {M} } ELSE { {A} }
        ELSE IF tt = "parse"
        THEN IF sc = "load" THEN { {M} } ELSE { {}, {M} }
        ELSE IF sc = "load" THEN { {}, {A} }
             ELSE { {}, {A}, {A, B}, {J}, {O}, {A, J, O} }

\* ------------------------------------------------------------ state
VARIABLES
    scenario,           \* "load" | "queue" | "single" | "archive" | "s3" | "log":
                        \* the clients' inputs
    budget,             \* requests that may still arrive
    file,               \* file[r]: the upload of request r (filename, task_type)
    pc,                 \* pc[r]: "new" | "reading" | "awaiting" | "done" | "cancelled"
    job,                \* job[r]: "none" | "queued" | "running" | "returned" | "raised"
                        \*         | "cancelled"
    queue,              \* the executor's work queue, FIFO
    worker,             \* worker[w]: the request whose job thread w runs, 0 when idle
    result,             \* result[r]: the listing of the job's result directory
    resp,               \* resp[r]: what the handler answered
    tmpfiles,           \* requests whose staged temp input file is on disk
    unlinks,            \* unlinks[r]: successful os.unlink calls on r's temp file
    outdirs,            \* requests whose mkdtemp output directory is on disk
    archives,           \* archive files on disk: [dir, name, entries]
    now,                \* int(time.time()) as last read
    executor_shutdown,  \* the executor refuses new work
    phase,              \* "serving" | "draining" | "stopped"
    zip_time,           \* zip_time[r]: the int(time.time()) r's archive name was made of
    s3_url,             \* s3_url[r]: the locator of a request to /ocr/text/s3_url
    get_object_calls,   \* requests for which s3.get_object was called
    log_dir,            \* what is at LOG_FOLDER_PATH: "missing" | "file" | "dir"
    log_files,          \* the log files in the log directory
    log_written,        \* how many log files have been written so far
    output_zip,         \* the members of the file at OUTPUT_ZIP_FILE_PATH
    bucket,             \* the objects uploaded to the bucket, each a set of members
    log_pc,             \* upload_logs_to_AWS_S3: "idle" | "zipped" | "uploaded"
    log_requests,       \* how many requests to /logs/upload have arrived
    log_resp            \* the answer to the last request to /logs/upload

req_vars == << scenario, budget, file, pc, job, queue, worker, result, resp, tmpfiles,
               unlinks, outdirs, archives, now, executor_shutdown, phase, zip_time >>

s3_vars == << s3_url, get_object_calls >>

log_vars == << log_dir, log_files, log_written, output_zip, bucket, log_pc,
               log_requests, log_resp >>

vars == << req_vars, s3_vars, log_vars >>

Reqs == 1..MaxReq

NoFile == [filename |-> <<>>, task_type |-> "none"]
NoZip == [seed |-> <<>>, time |-> 0]
NoUrl == [mount |-> "", name |-> NoZip]
NoResp ==
    [type |-> "none", success |-> FALSE, status_code |-> 0, task_type |-> "none",
     content |-> <<>>, message |-> "", files |-> {}, download_url |-> NoUrl]

InitIn(sc, n) ==
    /\ scenario = sc
    /\ budget = n
    /\ file = [r \in Reqs |-> NoFile]
    /\ pc = [r \in Reqs |-> "new"]
    /\ job = [r \in Reqs |-> "none"]
    /\ queue = <<>>
    /\ worker = [w \in Workers |-> 0]
    /\ result = [r \in Reqs |-> {}]
    /\ resp = [r \in Reqs |-> NoResp]
    /\ tmpfiles = {}
    /\ unlinks = [r \in Reqs |-> 0]
    /\ outdirs = {}
    /\ archives = {}
    /\ now = 0
    /\ executor_shutdown = FALSE
    /\ phase = "serving"
    /\ zip_time = [r \in Reqs |-> {}]
    /\ s3_url = [r \in Reqs |-> {}]
    /\ get_object_calls = {}
    /\ log_dir \in (IF sc = "log" THEN {"missing", "file", "dir"} ELSE {"dir"})
    /\ log_files = {}
    /\ log_written = 0
    /\ output_zip = {}
    /\ bucket = {}
    /\ log_pc = "idle"
    /\ log_requests = 0
    /\ log_resp = NoResp

Init == InitIn("load", MaxReq)
InitQueue == InitIn("queue", MaxReq)
InitSingle == InitIn("single", 1)
InitArchive == InitIn("archive", 1)


\* The environment's faults (a failing read, write, unlink or archive write) are
\* explored in the single-request scenario; in the others only the model job fails.
Faults(sc) == IF sc = "single" THEN BOOLEAN ELSE {TRUE}

\* ------------------------------------------------------------ responses
\* an exception object: its class, and for HTTPException its status and detail
Exc(cls, code, detail) == [exc |-> cls, status_code |-> code, detail |-> detail]

ModelNotInitialized == Exc("HTTPException", 500, "Model not initialized")
UnsupportedFileType == Exc("HTTPException", 400, "Unsupported file type")
OnlyPdfSupported == Exc("HTTPException", 400, "Only PDF files are supported for document parsing")
StagingError == Exc("OSError", 0, "reading or writing the upload failed")
SubmitAfterShutdown == Exc("RuntimeError", 0, "cannot schedule new futures after shutdown")
TaskError == Exc("Exception", 0, "the model job raised")
NoResultFile == Exc("Exception", 0, "No result file generated")
ArchiveError == Exc("OSError", 0, "writing the archive failed")
UnlinkError == Exc("OSError", 0, "os.unlink failed")
NoExc == Exc("none", 0, "")

\* an except clause that lets an HTTPException through to the framework
OcrExceptReraising(tt, e) ==
    [type |-> IF e.exc = "HTTPException" THEN "HTTPException" ELSE "TaskResponse",
     success |-> FALSE,
     status_code |-> IF e.exc = "HTTPException" THEN e.status_code ELSE 200,
     task_type |-> tt, content |-> <<>>, message |-> e.detail, files |-> {},
     download_url |-> NoUrl]

\* perform_ocr_task, except Exception as e: the failure is returned, in band;
\* str(e) is the exception's detail
OcrExcept(tt, e) ==
    [type |-> "TaskResponse", success |-> FALSE, status_code |-> 200, task_type |-> tt,
     content |-> <<>>, message |-> e.detail, files |-> {}, download_url |-> NoUrl]

\* perform_ocr_task, return TaskResponse(success=True, ...)
OcrSuccess(tt, content) ==
    [type |-> "TaskResponse", success |-> TRUE, status_code |-> 200, task_type |-> tt,
     content |-> content, message |-> "extraction completed successfully",
     files |-> {}, download_url |-> NoUrl]

\* an except clause that answers with ParseResponse(success=False)
ParseExceptInBand(e) ==
    [type |-> "ParseResponse", success |-> FALSE, status_code |-> 200,
     task_type |-> "parse", content |-> <<>>, message |-> e.detail, files |-> {},
     download_url |-> NoUrl]

\* parse_document, except Exception as e: raise HTTPException(500, "Parsing failed: ...")
ParseExcept(e) ==
    [type |-> "HTTPException", success |-> FALSE, status_code |-> 500,
     task_type |-> "parse", content |-> <<>>, message |-> e.detail, files |-> {},
     download_url |-> NoUrl]

\* parse_document, return ParseResponse(success=True, ...)
ParseSuccess(files, zip_filename) ==
    [type |-> "ParseResponse", success |-> TRUE, status_code |-> 200,
     task_type |-> "parse", content |-> <<>>,
     message |-> "Document parsing completed successfully", files |-> files,
     download_url |-> [mount |-> "/static", name |-> zip_filename]]

\* the outermost except clause of the handler of endpoint tt
Except(tt, e) == IF tt = "parse" THEN ParseExcept(e) ELSE OcrExcept(tt, e)

\* the validation at the head of the handler: the exception it raises, NoExc
\* when the upload passes
Validate(up) ==
    IF ~monkey_ocr_model THEN ModelNotInitialized
    ELSE IF up.task_type = "parse"
    THEN IF ~EndsWith(Lower(up.filename), <<".", "p", "d", "f">>)
         THEN OnlyPdfSupported ELSE NoExc
    ELSE IF Lower(PathSuffix(up.filename)) \notin allowed_extensions
         THEN UnsupportedFileType ELSE NoExc

\* ------------------------------------------------------------ handlers
NextReq == CHOOSE r \in Reqs : pc[r] = "new" /\ \A q \in Reqs : pc[q] = "new" => r <= q

\* A request arrives and its handler runs to its first await (file.read()):
\* the validation, then NamedTemporaryFile(delete=False) creates the temp file.
Begin(up) ==
    /\ LET r == NextReq
           e == Validate(up)
       IN  /\ budget' = budget - 1
           /\ file' = [file EXCEPT ![r] = up]
           /\ IF e # NoExc
              THEN /\ pc' = [pc EXCEPT ![r] = "done"]
                   /\ resp' = [resp EXCEPT ![r] = Except(up.task_type, e)]
                   /\ UNCHANGED tmpfiles
              ELSE /\ pc' = [pc EXCEPT ![r] = "reading"]
                   /\ tmpfiles' = tmpfiles \cup {r}
                   /\ UNCHANGED resp
    /\ UNCHANGED << zip_time, log_vars >>
    /\ UNCHANGED << scenario, job, queue, worker, result, unlinks, outdirs, archives,
                    now, executor_shutdown, phase >>

\* the uploads the r-th request may carry: any of the scenario's; in the queue
\* scenario text and parse requests alternate
Workload(sc, r) ==
    IF sc = "queue"
    THEN { up \in Uploads(sc) : (up.task_type = "parse") <=> (r % 2 = 0) }
    ELSE Uploads(sc)

\* an event loop that is held while every worker thread runs a job, as it
\* would be if the handler waited for its job without yielding
LoopAcceptsWhenWorkerIdle == phase = "serving" /\ \E w \in Workers : worker[w] = 0

\* The event loop runs the handler of a new request whenever the server is
\* serving: a handler that waits for its job is suspended at
\* await loop.run_in_executor and the job runs on an executor thread.
LoopAccepts == phase = "serving"

\* a client sends one of the scenario's uploads while the server accepts requests
Arrive ==
    /\ LoopAccepts
    /\ budget > 0
    /\ \E r \in Reqs : pc[r] = "new"
    /\ \E up \in Workload(scenario, NextReq) : Begin(up)
    /\ UNCHANGED s3_vars

\* finally: os.unlink(temp_file_path). ok: the file is removed; otherwise
\* unlink raises and the file stays.
UnlinkFiles(r, ok) == IF ok THEN tmpfiles \ {r} ELSE tmpfiles
UnlinkCount(r, ok) == IF ok THEN [unlinks EXCEPT ![r] = @ + 1] ELSE unlinks

\* what leaves the try/finally: the body's exception or return value, unless
\* unlink raised, whose exception then replaces either
AfterFinally(tt, body, ok) == IF ok THEN body ELSE Except(tt, UnlinkError)

\* a queue that holds one waiting item and drops the rest
SubmitDropping(q, r) == IF Len(q) >= 1 THEN q ELSE Append(q, r)

\* executor.submit on a ThreadPoolExecutor: the work item is appended to the queue
Submit(q, r) == Append(q, r)

\* The handler resumes after file.read(): it writes and closes the temp file,
\* enters the try, creates the output directory and submits the job.
StagedWith(r, io_ok, unlink_ok) ==
    /\ LET tt == file[r].task_type
       IN  IF ~io_ok
           THEN \* read or write raised inside the with block: the temp file stays
                /\ unlink_ok
                /\ pc' = [pc EXCEPT ![r] = "done"]
                /\ resp' = [resp EXCEPT ![r] = Except(tt, StagingError)]
                /\ UNCHANGED << job, queue, tmpfiles, unlinks, outdirs >>
           ELSE IF executor_shutdown
           THEN \* run_in_executor raises RuntimeError; the finally unlinks
                /\ outdirs' = outdirs \cup {r}
                /\ pc' = [pc EXCEPT ![r] = "done"]
                /\ tmpfiles' = UnlinkFiles(r, unlink_ok)
                /\ unlinks' = UnlinkCount(r, unlink_ok)
                /\ resp' = [resp EXCEPT ![r] =
                       AfterFinally(tt, Except(tt, SubmitAfterShutdown), unlink_ok)]
                /\ UNCHANGED << job, queue >>
           ELSE /\ unlink_ok
                /\ outdirs' = outdirs \cup {r}
                /\ queue' = Submit(queue, r)
                /\ job' = [job EXCEPT ![r] = "queued"]
                /\ pc' = [pc EXCEPT ![r] = "awaiting"]
                /\ UNCHANGED << resp, tmpfiles, unlinks >>
    /\ UNCHANGED << zip_time, s3_vars, log_vars >>
    /\ UNCHANGED << scenario, budget, file, worker, result, archives, now,
                    executor_shutdown, phase >>

Staged(r) ==
    /\ phase # "draining"
    /\ pc[r] = "reading"
    /\ \E io_ok \in Faults(scenario), unlink_ok \in Faults(scenario) :
           StagedWith(r, io_ok, unlink_ok)


\* ------------------------------------------------------------ executor
\* A worker thread takes the oldest work item off the queue and runs it,
\* unless its future was cancelled while it waited: then the item is dropped.
WorkerStart(w) ==
    /\ worker[w] = 0
    /\ queue # <<>>
    /\ queue' = Tail(queue)
    /\ IF job[Head(queue)] = "cancelled"
       THEN UNCHANGED << worker, job >>
       ELSE /\ worker' = [worker EXCEPT ![w] = Head(queue)]
            /\ job' = [job EXCEPT ![Head(queue)] = "running"]
    /\ UNCHANGED << zip_time, s3_vars, log_vars >>
    /\ UNCHANGED << scenario, budget, file, pc, result, resp, tmpfiles, unlinks,
                    outdirs, archives, now, executor_shutdown, phase >>

\* single_task_recognition / parse_pdf ends on thread w: it raises, or returns
\* the result directory, whose listing is the external model's choice.
WorkerFinish(w) ==
    /\ worker[w] # 0
    /\ LET r == worker[w]
       IN  \/ /\ job' = [job EXCEPT ![r] = "raised"]
              /\ UNCHANGED result
           \/ \E listing \in Listings(scenario, file[r].task_type) :
                  /\ job' = [job EXCEPT ![r] = "returned"]
                  /\ result' = [result EXCEPT ![r] = listing]
    /\ worker' = [worker EXCEPT ![w] = 0]
    /\ UNCHANGED << zip_time, s3_vars, log_vars >>
    /\ UNCHANGED << scenario, budget, file, pc, queue, resp, tmpfiles, unlinks,
                    outdirs, archives, now, executor_shutdown, phase >>

\* ------------------------------------------------------------ after the job
\* result_files = [f for f in os.listdir(result_dir) if f.endswith(...)]
ResultFiles(listing, tt) == { f \in listing : EndsWith(f, ResultSuffix(tt)) }

\* a check that insists on a single result file
HasExactlyOneResult(result_files) == Cardinality(result_files) = 1

\* if not result_files: raise Exception("No result file generated")
HasResult(result_files) == result_files # {}

\* The body of perform_ocr_task's try after the await: the response it
\* returns, or the exception it raises. first is result_files[0]: os.listdir
\* gives no order, so any matching file may be first.
OcrBody(r, first) ==
    LET tt == file[r].task_type
        result_files == ResultFiles(result[r], tt)
    IN  IF job[r] = "raised" THEN Except(tt, TaskError)
        ELSE IF ~HasResult(result_files) THEN Except(tt, NoResultFile)
        ELSE OcrSuccess(tt, first)

\* the files result_files[0] may be
FirstChoices(r) ==
    LET result_files == ResultFiles(result[r], file[r].task_type)
    IN  IF job[r] = "raised" \/ result_files = {} THEN { <<>> } ELSE result_files

\* an archive name made of the seed alone
ZipFilenameOfSeed(filename, t) == [seed |-> OriginalName(filename), time |-> 0]

\* zip_filename = f"{original_name}_parsed_{int(time.time())}.zip"
ZipFilename(filename, t) == [seed |-> OriginalName(filename), time |-> t]

\* the images test made on the file's base name
InImagesByName(rel_path) ==
    Contains(PathName(rel_path), <<"i", "m", "a", "g", "e", "s", "/">>)

\* if 'images/' in rel_path
InImages(rel_path) == Contains(rel_path, <<"i", "m", "a", "g", "e", "s", "/">>)

\* new_filename, the name parse_document gives the file at rel_path inside the
\* archive; filename is the file's base name
ArcName(rel_path, original_name) ==
    LET filename == PathName(rel_path)
    IN  IF EndsWith(filename, <<".", "m", "d">>)
        THEN original_name \o <<".", "m", "d">>
        ELSE IF EndsWith(filename, <<"_", "c", "o", "n", "t", "e", "n", "t", "_",
                                     "l", "i", "s", "t", ".", "j", "s", "o", "n">>)
        THEN original_name \o <<"_", "c", "o", "n", "t", "e", "n", "t", "_",
                                 "l", "i", "s", "t", ".", "j", "s", "o", "n">>
        ELSE IF EndsWith(filename, <<"_", "m", "i", "d", "d", "l", "e", ".", "j", "s", "o", "n">>)
        THEN original_name \o <<"_", "m", "i", "d", "d", "l", "e", ".", "j", "s", "o", "n">>
        ELSE IF EndsWith(filename, <<"_", "m", "o", "d", "e", "l", ".", "p", "d", "f">>)
        THEN original_name \o <<"_", "m", "o", "d", "e", "l", ".", "p", "d", "f">>
        ELSE IF EndsWith(filename, <<"_", "l", "a", "y", "o", "u", "t", ".", "p", "d", "f">>)
        THEN original_name \o <<"_", "l", "a", "y", "o", "u", "t", ".", "p", "d", "f">>
        ELSE IF EndsWith(filename, <<"_", "s", "p", "a", "n", "s", ".", "p", "d", "f">>)
        THEN original_name \o <<"_", "s", "p", "a", "n", "s", ".", "p", "d", "f">>
        ELSE IF InImages(rel_path)
        THEN <<"i", "m", "a", "g", "e", "s", "/">> \o original_name \o <<"_">> \o filename
        ELSE original_name \o <<"_">> \o filename

\* the archive written at zip_path = os.path.join("/app/tmp", zip_filename):
\* one entry per file of the walk, zipf.write(file_path, new_filename)
ZipFile(zip_filename, listing) ==
    [dir |-> zip_dir, name |-> zip_filename,
     entries |-> { [src |-> p, arcname |-> ArcName(p, zip_filename.seed)] : p \in listing }]

\* zipfile.ZipFile(zip_path, 'w') replaces a file already at zip_path
WriteArchive(disk, a) ==
    { b \in disk : ~(b.dir = a.dir /\ b.name = a.name) } \cup {a}

\* The body of parse_document's try after the await.
ParseBody(r, t, zip_ok) ==
    IF job[r] = "raised" THEN ParseExcept(TaskError)
    ELSE IF ~zip_ok THEN ParseExcept(ArchiveError)
    ELSE ParseSuccess(result[r], ZipFilename(file[r].filename, t))

\* The job's future is done and the handler resumes: the rest of the try, the
\* finally, and the outermost except.
ResumeWith(r, first, t, zip_ok, unlink_ok) ==
    /\ LET tt == file[r].task_type
       IN  IF tt = "parse"
           THEN /\ IF job[r] = "raised"
                   THEN t = now /\ zip_ok
                   ELSE t \in now..MaxTime
                /\ now' = t
                /\ archives' =
                       IF job[r] = "returned" /\ zip_ok
                       THEN WriteArchive(archives,
                                ZipFile(ZipFilename(file[r].filename, t), result[r]))
                       ELSE archives
                /\ resp' = [resp EXCEPT ![r] =
                       AfterFinally(tt, ParseBody(r, t, zip_ok), unlink_ok)]
           ELSE /\ t = now
                /\ zip_ok
                /\ UNCHANGED << now, archives >>
                /\ resp' = [resp EXCEPT ![r] =
                       AfterFinally(tt, OcrBody(r, first), unlink_ok)]
    /\ tmpfiles' = UnlinkFiles(r, unlink_ok)
    /\ unlinks' = UnlinkCount(r, unlink_ok)
    /\ pc' = [pc EXCEPT ![r] = "done"]
    /\ zip_time' = IF file[r].task_type = "parse" /\ job[r] = "returned"
                   THEN [zip_time EXCEPT ![r] = {t}]
                   ELSE zip_time
    /\ UNCHANGED << s3_vars, log_vars >>
    /\ UNCHANGED << scenario, budget, file, job, queue, worker, result, outdirs,
                    executor_shutdown, phase >>

Resume(r) ==
    /\ phase # "draining"
    /\ pc[r] = "awaiting"
    /\ job[r] \in {"returned", "raised"}
    /\ \E first \in FirstChoices(r), t \in now..MaxTime,
          zip_ok \in Faults(scenario), unlink_ok \in Faults(scenario) :
           ResumeWith(r, first, t, zip_ok, unlink_ok)

\* ------------------------------------------------------------ cancellation
\* The task of a handler suspended at await loop.run_in_executor is cancelled
\* (the server gives up on its open requests): the future of a job still in
\* the queue is cancelled with it, a running job runs on. CancelledError is
\* raised at the await, the finally unlinks the temp file, and the error, not
\* an Exception, passes the outermost except: no response is made. If unlink
\* raises, its OSError replaces the CancelledError and is answered as usual.
CancelWith(r, unlink_ok) ==
    /\ job' = [job EXCEPT ![r] = IF @ = "queued" THEN "cancelled" ELSE @]
    /\ tmpfiles' = UnlinkFiles(r, unlink_ok)
    /\ unlinks' = UnlinkCount(r, unlink_ok)
    /\ IF unlink_ok
       THEN /\ pc' = [pc EXCEPT ![r] = "cancelled"]
            /\ UNCHANGED resp
       ELSE /\ pc' = [pc EXCEPT ![r] = "done"]
            /\ resp' = [resp EXCEPT ![r] = Except(file[r].task_type, UnlinkError)]
    /\ UNCHANGED << zip_time, s3_vars, log_vars >>
    /\ UNCHANGED << scenario, budget, file, queue, worker, result, outdirs, archives,
                    now, executor_shutdown, phase >>

Cancel(r) ==
    /\ phase # "draining"
    /\ pc[r] = "awaiting"
    /\ \E unlink_ok \in Faults(scenario) : CancelWith(r, unlink_ok)

\* ------------------------------------------------------------ S3 download
s3_scheme == <<"s", "3", ":", "/", "/">>

\* the locators clients send to /ocr/text/s3_url: a scheme part and a rest
LocatorSchemes ==
    { s3_scheme, <<"S", "3", ":", "/", "/">>, <<"h", "t", "t", "p", ":", "/", "/">>,
      <<"x", "s", "3", ":", "/", "/">>, <<"s", "3", ":", "/">>, <<"s", "3", ":">>, <<>> }

LocatorRests ==
    { <<>>, <<"b">>, <<"b", "/">>, <<"b", "/", "k">>, <<"/", "k">>, <<"/">>,
      <<"b", "/", "k", "/", "x">>, <<"b", ".", "k">> }

Locators == { sch \o rest : sch \in LocatorSchemes, rest \in LocatorRests }

from_s3_pdf == <<"f", "r", "o", "m", "_", "s", "3", ".", "p", "d", "f">>

\* str.find(sub) + 1: the first position of sub in s, 0 when sub is not in s
Find(s, sub) ==
    LET hits == { i \in 1..(Len(s) + 1) :
                     /\ i + Len(sub) - 1 <= Len(s)
                     /\ SubSeq(s, i, i + Len(sub) - 1) = sub }
    IN  IF hits = {} THEN 0 ELSE CHOOSE i \in hits : \A j \in hits : i <= j

\* s.split(sep, 1): the parts before and after the first sep, or s alone
SplitOnce(s, sep) ==
    LET i == Find(s, sep)
    IN  IF i = 0 THEN << s >>
        ELSE << SubSeq(s, 1, i - 1), SubSeq(s, i + Len(sep), Len(s)) >>

\* a scheme test that looks for "s3://" anywhere in the locator
S3SchemeAnywhere(url) == Contains(url, s3_scheme)

\* s3_url.startswith("s3://")
StartsWithS3Scheme(url) ==
    /\ Len(url) >= Len(s3_scheme)
    /\ SubSeq(url, 1, Len(s3_scheme)) = s3_scheme

InvalidS3Url == Exc("ValueError", 0, "Invalid S3 URL format")
UnpackError == Exc("ValueError", 0, "not enough values to unpack (expected 2, got 1)")
GetObjectError == Exc("ClientError", 0, "get_object failed")

\* download_file_from_s3(s3_url), url being the locator: the exception it ends with (NoExc when the
\* bytes are returned) and whether s3.get_object was called; net_ok is the
\* outcome of that call
download_file_from_s3(url, net_ok) ==
    IF ~StartsWithS3Scheme(url)
    THEN [exc |-> InvalidS3Url, called |-> FALSE]
    ELSE LET path == SplitOnce(url, s3_scheme)[2]
             parts == SplitOnce(path, <<"/">>)
         IN  IF Len(parts) # 2
             THEN [exc |-> UnpackError, called |-> FALSE]
             ELSE [exc |-> IF net_ok THEN NoExc ELSE GetObjectError, called |-> TRUE]

\* extract_text_from_s3, except Exception as e: the uniform failure result,
\* message f"Error occurred: {type(e).__name__} - {e}"
S3Except(e) ==
    [type |-> "TaskResponse", success |-> FALSE, status_code |-> 200,
     task_type |-> "text", content |-> <<>>,
     message |-> "Error occurred: " \o e.exc \o " - " \o e.detail,
     files |-> {}, download_url |-> NoUrl]

\* A request to /ocr/text/s3_url arrives: the download, then either the
\* failure result or perform_ocr_task(UploadFile("from_s3.pdf"), "text") up
\* to its first await.
ArriveS3With(s3url, net_ok) ==
    LET r == NextReq
        d == download_file_from_s3(s3url, net_ok)
    IN  /\ s3_url' = [s3_url EXCEPT ![r] = {s3url}]
        /\ get_object_calls' =
               IF d.called THEN get_object_calls \cup {r} ELSE get_object_calls
        /\ IF d.exc # NoExc
           THEN /\ budget' = budget - 1
                /\ pc' = [pc EXCEPT ![r] = "done"]
                /\ resp' = [resp EXCEPT ![r] = S3Except(d.exc)]
                /\ UNCHANGED << zip_time, log_vars >>
                /\ UNCHANGED << scenario, file, job, queue, worker, result, tmpfiles,
                                unlinks, outdirs, archives, now, executor_shutdown,
                                phase >>
           ELSE Begin([filename |-> from_s3_pdf, task_type |-> "text"])

ArriveS3 ==
    /\ LoopAccepts
    /\ budget > 0
    /\ \E r \in Reqs : pc[r] = "new"
    /\ \E s3url \in Locators, net_ok \in BOOLEAN : ArriveS3With(s3url, net_ok)

\* ------------------------------------------------------------ log upload
LogFolderIsFile == Exc("FileExistsError", 0, "LOG_FOLDER_PATH exists and is not a directory")
ZipError == Exc("OSError", 0, "zip_folder failed")
UploadError == Exc("S3UploadFailedError", 0, "upload_file failed")
InvalidDirectory == Exc("ValueError", 0, "LOG_FOLDER_PATH is not a valid directory")

\* upload_logs_to_AWS_S3, except Exception as e
LogExcept(e) ==
    [type |-> "TaskResponse", success |-> FALSE, status_code |-> 200,
     task_type |-> "Log", content |-> <<>>,
     message |-> "OCR task failed: " \o e.detail, files |-> {}, download_url |-> NoUrl]

\* upload_logs_to_AWS_S3, return TaskResponse(success=True, ...)
LogSuccess ==
    [type |-> "TaskResponse", success |-> TRUE, status_code |-> 200,
     task_type |-> "Log", content |-> <<>>,
     message |-> "log files uploaded to AWS S3", files |-> {}, download_url |-> NoUrl]

\* os.makedirs(path, exist_ok=True): the directory is there afterwards, unless
\* the path is a file
MakeDirs(kind) ==
    IF kind = "file" THEN [exc |-> LogFolderIsFile, kind |-> kind]
    ELSE [exc |-> NoExc, kind |-> "dir"]

\* zip_folder(input_folder, output_zip_path): one member per file of the walk
zip_folder(files) == files

\* a drain that removes the directory and does not make it again
RemoveDirectoryOnly(kind, files) ==
    IF kind # "dir" THEN [exc |-> InvalidDirectory, kind |-> kind, files |-> files]
    ELSE [exc |-> NoExc, kind |-> "missing", files |-> {}]

\* delete_files_in_directory(folder_path): ValueError unless the path is a
\* directory; else shutil.rmtree and os.makedirs leave it there and empty
delete_files_in_directory(kind, files) ==
    IF kind # "dir" THEN [exc |-> InvalidDirectory, kind |-> kind, files |-> files]
    ELSE [exc |-> NoExc, kind |-> "dir", files |-> {}]

\* A request to /logs/upload arrives; the handler makes sure of the log
\* directory and zips it.
LogsZip ==
    /\ LoopAccepts
    /\ log_pc = "idle"
    /\ log_requests < MaxLogRequests
    /\ log_requests' = log_requests + 1
    /\ \E zip_ok \in BOOLEAN :
           LET m == MakeDirs(log_dir)
           IN  /\ log_dir' = m.kind
               /\ IF m.exc # NoExc
                  THEN /\ log_resp' = LogExcept(m.exc)
                       /\ UNCHANGED << output_zip, log_pc >>
                  ELSE IF ~zip_ok
                  THEN \* ZipFile(path, 'w') has truncated the file
                       /\ output_zip' = {}
                       /\ log_resp' = LogExcept(ZipError)
                       /\ UNCHANGED log_pc
                  ELSE /\ output_zip' = zip_folder(log_files)
                       /\ log_pc' = "zipped"
                       /\ UNCHANGED log_resp
    /\ UNCHANGED << log_files, log_written, bucket >>
    /\ UNCHANGED << req_vars, s3_vars >>

\* upload_file_to_s3(OUTPUT_ZIP_FILE_PATH): the zip file becomes an object
\* under a fresh key, or the call raises
LogsUpload ==
    /\ log_pc = "zipped"
    /\ \/ /\ bucket' = bucket \cup {[key |-> log_requests, members |-> output_zip]}
          /\ log_pc' = "uploaded"
          /\ UNCHANGED log_resp
       \/ /\ log_resp' = LogExcept(UploadError)
          /\ log_pc' = "idle"
          /\ UNCHANGED bucket
    /\ UNCHANGED << log_dir, log_files, log_written, output_zip, log_requests >>
    /\ UNCHANGED << req_vars, s3_vars >>

\* delete_files_in_directory(LOG_FOLDER_PATH) and the handler's answer
LogsDrain ==
    /\ log_pc = "uploaded"
    /\ LET d == delete_files_in_directory(log_dir, log_files)
       IN  /\ log_dir' = d.kind
           /\ log_files' = d.files
           /\ log_resp' = IF d.exc = NoExc THEN LogSuccess ELSE LogExcept(d.exc)
    /\ log_pc' = "idle"
    /\ UNCHANGED << log_written, output_zip, bucket, log_requests >>
    /\ UNCHANGED << req_vars, s3_vars >>

\* A writer of logs (a job on a worker thread, another process) adds a file
\* to the log directory, at any time.
LogWrite ==
    /\ log_dir = "dir"
    /\ log_written < MaxLogs
    /\ log_written' = log_written + 1
    /\ log_files' = log_files \cup {log_written + 1}
    /\ UNCHANGED << log_dir, output_zip, bucket, log_pc, log_requests, log_resp >>
    /\ UNCHANGED << req_vars, s3_vars >>

\* Something outside the service removes the log directory, or puts a file
\* in its place.
LogFolderLost ==
    /\ log_dir = "dir"
    /\ \E kind \in {"missing", "file"} : log_dir' = kind
    /\ log_files' = {}
    /\ UNCHANGED << log_written, output_zip, bucket, log_pc, log_requests, log_resp >>
    /\ UNCHANGED << req_vars, s3_vars >>

\* ------------------------------------------------------------ static files
\* GET /static/{name}: StaticFiles(directory=temp_dir) serves the file if it is there
StaticServes(name) == \E a \in archives : a.dir = temp_dir /\ a.name = name

\* GET /download/{filename}: 404 unless the file is in /app/tmp
DownloadServes(name) == \E a \in archives : a.dir = download_dir /\ a.name = name

\* ------------------------------------------------------------ shutdown
\* executor.shutdown(wait=False): returns at once
DrainedWithoutWaiting == TRUE

\* executor.shutdown(wait=True) returns once every worker thread has ended,
\* which they do when the queue is empty and no job runs
Drained == queue = <<>> /\ \A w \in Workers : worker[w] = 0

\* lifespan, after the yield: executor.shutdown(wait=True) sets the shutdown
\* flag and blocks the event loop, so no handler runs until it returns.
ShutdownBegin ==
    /\ phase = "serving"
    /\ executor_shutdown' = TRUE
    /\ phase' = "draining"
    /\ UNCHANGED << zip_time, s3_vars, log_vars >>
    /\ UNCHANGED << scenario, budget, file, pc, job, queue, worker, result, resp,
                    tmpfiles, unlinks, outdirs, archives, now >>

\* executor.shutdown returns; "Application shutdown complete"
ShutdownComplete ==
    /\ phase = "draining"
    /\ Drained
    /\ phase' = "stopped"
    /\ UNCHANGED << zip_time, s3_vars, log_vars >>
    /\ UNCHANGED << scenario, budget, file, pc, job, queue, worker, result, resp,
                    tmpfiles, unlinks, outdirs, archives, now, executor_shutdown >>

\* ------------------------------------------------------------ specification
Next ==
    \/ Arrive
    \/ \E r \in Reqs : Staged(r)
    \/ \E w \in Workers : WorkerStart(w)
    \/ \E w \in Workers : WorkerFinish(w)
    \/ \E r \in Reqs : Resume(r)
    \/ ShutdownBegin
    \/ ShutdownComplete

Spec == Init /\ [][Next]_vars

\* one request, its file name and the job's listing drawn from the full input sets
SingleSpec == InitSingle /\ [][Next]_vars

\* one parse request, its result directory drawn from the sets of result paths
ArchiveSpec == InitArchive /\ [][Next]_vars

\* one request to /ocr/text/s3_url, its locator drawn from Locators
InitS3 == InitIn("s3", 1)

NextS3 ==
    \/ ArriveS3
    \/ \E r \in Reqs : Staged(r)
    \/ \E w \in Workers : WorkerStart(w)
    \/ \E w \in Workers : WorkerFinish(w)
    \/ \E r \in Reqs : Resume(r)
    \/ ShutdownBegin
    \/ ShutdownComplete

S3Spec == InitS3 /\ [][NextS3]_vars

\* the log upload endpoint next to the writers of the log directory, which
\* is missing, a file or an empty directory at the start
InitLog == InitIn("log", 0)

NextLog ==
    \/ LogsZip
    \/ LogsUpload
    \/ LogsDrain
    \/ LogWrite
    \/ LogFolderLost

LogSpec == InitLog /\ [][NextLog]_vars

\* the service when the tasks of suspended handlers may be cancelled
NextCancel ==
    \/ Next
    \/ \E r \in Reqs : Cancel(r)

CancelSpec == InitQueue /\ [][NextCancel]_vars

\* valid uploads only, to more requests than there are workers: the worker
\* threads run whenever they can, the event loop resumes a handler whose
\* future is done, and a shutdown that has begun returns once drained
FairSpec ==
    /\ InitQueue /\ [][Next]_vars
    /\ \A w \in Workers : WF_vars(WorkerStart(w))
    /\ \A w \in Workers : WF_vars(WorkerFinish(w))
    /\ WF_vars(ShutdownComplete)
    /\ \A r \in Reqs : WF_vars(Resume(r))


\* ------------------------------------------------------------ claims
Done(r) == pc[r] = "done"
SingleTask(r) == file[r].task_type \in SingleTasks
FullParse(r) == file[r].task_type = "parse"
PassedValidation(r) == pc[r] # "new" /\ Validate(file[r]) = NoExc
UnlinkRaised(r) == resp[r].message = UnlinkError.detail

\* C1: in both flows, on every exit path of the handler (validation failure,
\* staging failure, job failure, missing result file, archive failure,
\* success) a staged temp input file that was created has been deleted exactly
\* once when the handler returns, and is no longer on disk. (The paths on
\* which os.unlink itself raises are left out: the claim does not list them.)
C1_TempFileDeletedOnEveryExit ==
    \A r \in Reqs :
        Done(r) /\ ~UnlinkRaised(r) =>
            /\ r \notin tmpfiles
            /\ PassedValidation(r) => unlinks[r] = 1
            /\ ~PassedValidation(r) => unlinks[r] = 0

\* the causes of failure of a single-task request, read off the state and not
\* off the response
OcrFailed(r) ==
    \/ Validate(file[r]) # NoExc
    \/ job[r] # "returned"
    \/ \A f \in result[r] : ~EndsWith(f, ResultSuffix(file[r].task_type))
    \/ unlinks[r] = 0

\* C2: whatever makes a single-task request fail (model not initialized,
\* unsupported extension, staging failure, exception in the job, missing
\* result file, failing unlink), perform_ocr_task returns a TaskResponse with
\* success=false, empty content and a message, never a transport-level error.
C2_FailuresAreInBand ==
    \A r \in Reqs :
        Done(r) /\ SingleTask(r) =>
            /\ resp[r].type = "TaskResponse"
            /\ resp[r].status_code = 200
            /\ OcrFailed(r) =>
                   /\ resp[r].success = FALSE
                   /\ resp[r].content = <<>>
                   /\ resp[r].message # ""
                   /\ resp[r].task_type = file[r].task_type

\* C2 witness: a request that failed only because os.unlink raised after the
\* job had produced its result file
C2_Witness ==
    \E r \in Reqs :
        /\ Done(r) /\ SingleTask(r)
        /\ job[r] = "returned"
        /\ \E f \in result[r] : EndsWith(f, ResultSuffix(file[r].task_type))
        /\ r \in tmpfiles
        /\ resp[r].success = FALSE

\* the declared file name ends, in any mix of cases, with a dot and one of
\* pdf, jpg, jpeg, png, and has something other than "/" before that dot
DeclaredExtensionAllowed(filename) ==
    \E e \in { <<"p", "d", "f">>, <<"j", "p", "g">>, <<"j", "p", "e", "g">>,
               <<"p", "n", "g">> } :
        /\ Len(filename) > Len(e) + 1
        /\ \A i \in 1..Len(e) :
               filename[Len(filename) - Len(e) + i] \in {e[i], UpperChar(e[i])}
        /\ filename[Len(filename) - Len(e)] = "."
        /\ filename[Len(filename) - Len(e) - 1] # "/"

\* C3: in the single-task flow a file name whose extension is, in any case,
\* one of pdf, jpg, jpeg, png is staged (its temp file is created and, unless
\* the staging I/O fails or the executor is shut down, its job is submitted);
\* any other file name fails as an unsupported file type, with no temp file
\* created or left and no job submitted.
C3_ExtensionAllowList ==
    \A r \in Reqs :
        pc[r] # "new" /\ SingleTask(r) =>
            IF DeclaredExtensionAllowed(file[r].filename)
            THEN /\ resp[r].message # UnsupportedFileType.detail
                 /\ r \in tmpfiles \/ unlinks[r] = 1
                 /\ \/ pc[r] = "reading"
                    \/ job[r] # "none"
                    \/ resp[r].message \in
                           {StagingError.detail, SubmitAfterShutdown.detail, UnlinkError.detail}
            ELSE /\ Done(r)
                 /\ resp[r].type = "TaskResponse"
                 /\ resp[r].success = FALSE
                 /\ resp[r].message = UnsupportedFileType.detail
                 /\ r \notin tmpfiles
                 /\ unlinks[r] = 0
                 /\ r \notin outdirs
                 /\ job[r] = "none"
                 /\ \A i \in 1..Len(queue) : queue[i] # r

\* C3 witness: an upload below a directory, with a mixed-case jpeg extension,
\* whose job waits in the executor's queue
C3_Witness ==
    \E r \in Reqs :
        /\ SingleTask(r)
        /\ file[r].filename = <<"d", ".", "x", "/", "a", ".", "J", "p", "E", "g">>
        /\ r \in tmpfiles
        /\ job[r] = "queued"

\* C4 as stated: parse_document reports a validation failure as a
\* transport-level error naming the cause, and a failure of the parse job as
\* an in-band failure object (success=false), not as a transport-level error.
C4_Original ==
    \A r \in Reqs :
        Done(r) /\ FullParse(r) /\ ~UnlinkRaised(r) =>
            /\ Validate(file[r]) # NoExc =>
                   /\ resp[r].type = "HTTPException"
                   /\ resp[r].message = Validate(file[r]).detail
            /\ job[r] = "raised" =>
                   /\ resp[r].type = "ParseResponse"
                   /\ resp[r].success = FALSE

\* C4 amended: parse_document reports every failure, the validation failure
\* and the failure of the parse job alike, as a transport-level error (HTTP
\* 500 "Parsing failed: ..."); it returns a ParseResponse only with
\* success=true.
C4_EveryFailureIsTransportLevel ==
    \A r \in Reqs :
        Done(r) /\ FullParse(r) =>
            /\ resp[r].type \in {"HTTPException", "ParseResponse"}
            /\ resp[r].type = "ParseResponse" => resp[r].success = TRUE
            /\ (Validate(file[r]) # NoExc \/ job[r] # "returned" \/ unlinks[r] = 0) =>
                   /\ resp[r].type = "HTTPException"
                   /\ resp[r].status_code = 500

\* C4 witness: a parse request whose job raised, answered with the HTTP error
C4_Witness ==
    \E r \in Reqs :
        /\ Done(r) /\ FullParse(r)
        /\ job[r] = "raised"
        /\ resp[r].type = "HTTPException"

\* the files of the result directory named {stem}_{task_kind}_result.md
MatchingResults(r) ==
    { f \in result[r] :
        \E stem \in { <<"a">>, <<"b">> } :
            f = ResultFile(stem, file[r].task_type, <<".", "m", "d">>) }

\* C5 as stated: a single-task job is reported successful only if exactly one
\* file of its result directory matches; with no matching file, and with two
\* or more, the response is the in-band failure "No result file generated".
C5_Original ==
    \A r \in Reqs :
        Done(r) /\ SingleTask(r) /\ job[r] = "returned" /\ ~UnlinkRaised(r) =>
            /\ resp[r].success => Cardinality(MatchingResults(r)) = 1
            /\ Cardinality(MatchingResults(r)) # 1 =>
                   /\ resp[r].type = "TaskResponse"
                   /\ resp[r].success = FALSE
                   /\ resp[r].message = NoResultFile.detail

\* C5 amended: a single-task job is reported successful only if at least one
\* file of its result directory matches, and the content returned is that of
\* one of the matching files; with no matching file the response is the
\* in-band failure "No result file generated"; with two or more matching
\* files the request succeeds.
C5_AtLeastOneResultFile ==
    \A r \in Reqs :
        Done(r) /\ SingleTask(r) /\ job[r] = "returned" /\ ~UnlinkRaised(r) =>
            /\ resp[r].type = "TaskResponse"
            /\ resp[r].success <=> MatchingResults(r) # {}
            /\ resp[r].success => resp[r].content \in MatchingResults(r)
            /\ ~resp[r].success => resp[r].message = NoResultFile.detail

\* C5 witness: a successful request whose result directory holds two matching files
C5_Witness ==
    \E r \in Reqs :
        /\ Done(r) /\ SingleTask(r)
        /\ Cardinality(MatchingResults(r)) = 2
        /\ resp[r].success


\* the archive naming policy, as an ordered list of suffixes: a file whose
\* name ends with the k-th suffix, and with none before it, is named seed +
\* that suffix
NamingSuffixes ==
    << <<".", "m", "d">>,
       <<"_", "c", "o", "n", "t", "e", "n", "t", "_", "l", "i", "s", "t", ".", "j", "s", "o", "n">>,
       <<"_", "m", "i", "d", "d", "l", "e", ".", "j", "s", "o", "n">>,
       <<"_", "m", "o", "d", "e", "l", ".", "p", "d", "f">>,
       <<"_", "l", "a", "y", "o", "u", "t", ".", "p", "d", "f">>,
       <<"_", "s", "p", "a", "n", "s", ".", "p", "d", "f">> >>

\* path = prefix + base, base without "/" and prefix empty or ending in "/"
BaseOf(path) ==
    CHOOSE b \in { SubSeq(path, i, Len(path)) : i \in 1..(Len(path) + 1) } :
        /\ \A i \in 1..Len(b) : b[i] # "/"
        /\ Len(b) = Len(path) \/ path[Len(path) - Len(b)] = "/"

Images == <<"i", "m", "a", "g", "e", "s", "/">>

PolicyName(path, seed) ==
    LET base == BaseOf(path)
        hits == { k \in 1..Len(NamingSuffixes) :
                    /\ Len(base) >= Len(NamingSuffixes[k])
                    /\ \A i \in 1..Len(NamingSuffixes[k]) :
                           base[Len(base) - Len(NamingSuffixes[k]) + i] = NamingSuffixes[k][i] }
    IN  IF hits # {}
        THEN seed \o NamingSuffixes[CHOOSE k \in hits : \A j \in hits : k <= j]
        ELSE IF \E i \in 1..Len(path) :
                    /\ i + Len(Images) - 1 <= Len(path)
                    /\ \A j \in 1..Len(Images) : path[i + j - 1] = Images[j]
        THEN Images \o seed \o <<"_">> \o base
        ELSE seed \o <<"_">> \o base

doc == <<"d", "o", "c">>
ExampleListing == { report_md, report_content_list_json, images_fig1_png }
ExampleEntries ==
    { doc \o <<".", "m", "d">>,
      doc \o <<"_", "c", "o", "n", "t", "e", "n", "t", "_", "l", "i", "s", "t", ".", "j", "s", "o", "n">>,
      Images \o doc \o <<"_">> \o fig1_png }

ArcNames(a) == { e.arcname : e \in a.entries }

InFlight == { r \in Reqs : job[r] \in {"queued", "running"} }
Completed == { r \in Reqs : job[r] \in {"returned", "raised"} }
Submitted == { r \in Reqs : job[r] # "none" }

\* C7: with more jobs submitted than the pool has workers the excess waits in
\* the queue and none is dropped: under fair scheduling every submitted job
\* completes, returning or raising, its handler receives the outcome, and in
\* the end as many jobs have completed as were submitted.
C7_EverySubmittedJobCompletes ==
    /\ \A r \in Reqs : (job[r] = "queued") ~> (r \in Completed)
    /\ \A r \in Reqs : (pc[r] = "awaiting") ~> Done(r)
    /\ <>[](Cardinality(Completed) = Cardinality(Submitted))

\* C7 witness: three jobs submitted, two running and the third in the queue
C7_Witness ==
    /\ Cardinality(Submitted) > max_workers
    /\ \A w \in Workers : worker[w] # 0
    /\ queue # <<>>

\* C8: at any time at most 2 model invocations run, over all requests of
\* both flows; every other submitted, unfinished job is in the queue.
C8_AtMostTwoJobsRun ==
    /\ Cardinality({ r \in Reqs : job[r] = "running" }) <= 2
    /\ \A r \in Reqs :
           job[r] = "running" <=> \E w \in Workers : worker[w] = r
    /\ \A r \in Reqs :
           job[r] = "queued" <=> \E i \in 1..Len(queue) : queue[i] = r

\* C8 witness: two jobs run while a third waits in the queue
C8_Witness ==
    /\ Cardinality({ r \in Reqs : job[r] = "running" }) = 2
    /\ \E r \in Reqs : job[r] = "queued"

\* C9: shutdown first stops the executor accepting jobs, then waits for the
\* running and the queued jobs, and only then completes: once it has
\* completed no job is running or queued, and from the moment it began no
\* job that was not yet submitted is ever queued or started.
C9_ShutdownDrainsThePool ==
    /\ [](phase # "serving" => executor_shutdown)
    /\ [](phase = "stopped" => InFlight = {})
    /\ [][executor_shutdown => Submitted' \subseteq Submitted]_vars
    /\ [][phase = "draining" /\ phase' = "stopped" => InFlight = {}]_vars

\* C9 witness: shutdown has completed, jobs that were in the pool have
\* finished, and a submission made after it began was refused
C9_Witness ==
    /\ phase = "stopped"
    /\ Completed # {}
    /\ \E r \in Reqs :
           /\ Done(r)
           /\ job[r] = "none"
           /\ resp[r].message = SubmitAfterShutdown.detail

\* C10: after a successful full-parse request the archive is served both at
\* the download_url of the response, /static/{archiveFilename}, and by
\* GET /download/{archiveFilename}.
C10_ArchiveReachableBothWays ==
    \A r \in Reqs :
        Done(r) /\ FullParse(r) /\ resp[r].success =>
            /\ resp[r].download_url.mount = "/static"
            /\ StaticServes(resp[r].download_url.name)
            /\ DownloadServes(resp[r].download_url.name)

\* C11: once a single-task request whose job was submitted has finished, with
\* success or with failure, neither its staged input file nor the output
\* directory made for its job is left on disk.
C11_InputAndOutputCleanedUp ==
    \A r \in Reqs :
        Done(r) /\ SingleTask(r) /\ job[r] # "none" /\ ~UnlinkRaised(r) =>
            /\ r \notin tmpfiles
            /\ r \notin outdirs

\* the archive file at zip_path of request r's response, if it is on disk
ArchiveOf(r) ==
    { a \in archives : a.dir = zip_dir /\ a.name = resp[r].download_url.name }

\* two requests whose archive builds had the same seed and the same result
\* directory contents
SameBuild(r, q) ==
    /\ r # q
    /\ Done(r) /\ FullParse(r) /\ resp[r].success
    /\ Done(q) /\ FullParse(q) /\ resp[q].success
    /\ OriginalName(file[r].filename) = OriginalName(file[q].filename)
    /\ result[r] = result[q]

\* C14: two archive builds for the same result directory contents and the
\* same seed, made at different timestamps (in whole seconds), have different
\* archive paths, and both archive files are on disk: the later build has not
\* replaced the earlier one.
C14_TimestampKeepsArchivesApart ==
    \A r \in Reqs, q \in Reqs :
        SameBuild(r, q) /\ zip_time[r] # zip_time[q] =>
            /\ resp[r].download_url.name # resp[q].download_url.name
            /\ ArchiveOf(r) # {}
            /\ ArchiveOf(q) # {}
            /\ ArchiveOf(r) # ArchiveOf(q)

\* C14 witness: two such builds have been made, one second apart
C14_Witness ==
    \E r \in Reqs, q \in Reqs :
        /\ SameBuild(r, q)
        /\ zip_time[r] = {0}
        /\ zip_time[q] = {1}
        /\ Cardinality(archives) = 2

\* C18: in the archive of a successful full-parse request, two different
\* files of the result directory never have the same entry name, so the
\* archive holds as many differently named entries as the response lists files.
C18_EntryNamesAreDistinct ==
    \A r \in Reqs :
        Done(r) /\ FullParse(r) /\ resp[r].success =>
            \A a \in ArchiveOf(r) :
                /\ \A e1 \in a.entries, e2 \in a.entries :
                       e1.src # e2.src => e1.arcname # e2.arcname
                /\ Cardinality({ e.arcname : e \in a.entries }) =
                       Cardinality(resp[r].files)

\* every worker thread runs a job and the handlers of those jobs are suspended
AllBusy ==
    /\ \A w \in Workers : worker[w] # 0
    /\ \A w \in Workers : pc[worker[w]] = "awaiting"

\* C15: while every worker runs a job and the handlers of those jobs are
\* suspended, the next request is still accepted and validated, and a request
\* that has been read is still staged: the step that accepts it ends no job
\* and starts none, a request with an unsupported extension or a non-PDF to
\* /parse has its failure response at once, a valid one has its temp file, and
\* the step that stages a valid one puts its job in the queue.
C15_AcceptanceDoesNotWaitForJobs ==
    /\ [](AllBusy /\ phase = "serving" /\ budget > 0 /\ (\E r \in Reqs : pc[r] = "new")
              => ENABLED Arrive)
    /\ [](\A r \in Reqs : AllBusy /\ phase = "serving" /\ pc[r] = "reading"
              => ENABLED Staged(r))
    /\ [][AllBusy /\ budget' < budget =>
              /\ worker' = worker /\ job' = job /\ queue' = queue
              /\ \E r \in Reqs :
                     /\ pc[r] = "new"
                     /\ IF Validate(file'[r]) # NoExc
                        THEN /\ pc'[r] = "done"
                             /\ ~resp'[r].success
                             /\ resp'[r].message = Validate(file'[r]).detail
                        ELSE /\ pc'[r] = "reading"
                             /\ r \in tmpfiles']_vars
    /\ [][\A r \in Reqs :
              AllBusy /\ pc[r] = "reading" /\ pc'[r] # "reading" =>
                  /\ worker' = worker
                  /\ pc'[r] = "awaiting"
                  /\ job'[r] = "queued"
                  /\ queue' = Append(queue, r)
                  /\ r \in tmpfiles']_vars

\* C15 witness: both workers run the jobs of the first two requests, whose
\* handlers are suspended, and the third request has been answered
\* "Unsupported file type" meanwhile
C15_Witness ==
    /\ AllBusy
    /\ \E r \in Reqs :
           /\ \A w \in Workers : worker[w] < r
           /\ Done(r)
           /\ resp[r].message = UnsupportedFileType.detail

\* C16: as long as a request's job is in the queue or running, the request's
\* staged temp input file is on disk; the handler unlinks it only once the
\* job has finished, also when the awaiting request is cancelled.
C16_TempFileOutlivesJob ==
    \A r \in Reqs : job[r] \in {"queued", "running"} => r \in tmpfiles

\* a locator of the shape s3://bucket/key: the scheme, then a bucket and a
\* key with a "/" between them
S3Shaped(u) ==
    \E i \in 1..Len(u) :
        /\ i > Len(s3_scheme)
        /\ SubSeq(u, 1, Len(s3_scheme)) = s3_scheme
        /\ u[i] = "/"

\* the handler of an S3 request left before perform_ocr_task was called
DownloadFailed(r) == pc[r] # "new" /\ s3_url[r] # {} /\ file[r] = NoFile

\* the uniform failure result, with nothing staged and nothing submitted
UniformFailure(r) ==
    /\ Done(r)
    /\ resp[r].type = "TaskResponse"
    /\ resp[r].success = FALSE
    /\ resp[r].task_type = "text"
    /\ resp[r].content = <<>>
    /\ r \notin tmpfiles
    /\ unlinks[r] = 0
    /\ r \notin outdirs
    /\ job[r] = "none"
    /\ \A i \in 1..Len(queue) : queue[i] # r

LogHandlerStep == log_pc' # log_pc \/ log_requests' # log_requests

\* the handler's step ends a request in which makedirs, zip_folder or the
\* upload raised
ZipOrUploadFails == LogHandlerStep /\ log_pc \in {"idle", "zipped"} /\ log_pc' = "idle"

\* the handler's step is the call of delete_files_in_directory
Drains == log_pc = "uploaded" /\ log_pc' = "idle"

C17_DrainDeletesOnlyUploadedLogs ==
    [][Drains => \A f \in log_files \ log_files' :
                     \E o \in bucket : o.key = log_requests /\ f \in o.members]_vars

====
